---- MODULE Spec2Model ----
(***************************************************************************)
(* Model of schemathesis/hooks.py: the HookDispatcher class, the hook      *)
(* specifications declared at import time, the global dispatcher and the   *)
(* backward-compatible top-level `register`.                               *)
(*                                                                         *)
(* A callable is a record of its `__name__` and its parameter names;       *)
(* what it does when called is given by Body.  A dictionary is a function  *)
(* whose DOMAIN is the set of keys present.  The methods are operators on  *)
(* dictionaries; the actions apply them to the dispatchers of a program:   *)
(* the global one, the one of a schema and the ones attached to test       *)
(* functions.                                                              *)
(*                                                                         *)
(*   Spec        registration, lookup and reset on the global and the      *)
(*               schema dispatcher                                         *)
(*   SpecApply   apply on test functions                                   *)
(*   SpecStack   test functions defined under stacked apply decorators     *)
(*   SpecScopes  firings through the test, schema and global scope         *)
(*   SpecLegacy  the module-level register, dispatch and unregister_all    *)
(*   SpecDispatch  registered hooks fired with good and bad values         *)
(*   SpecValidated  every validating operation on every dispatcher         *)
(*   SpecAll     the same with the legacy register                         *)
(***************************************************************************)
EXTENDS Integers, Sequences, FiniteSets, TLC

VARIABLES hooks, attached, specs, last

vars == <<hooks, attached, specs, last>>

(***************************************************************************)
(* Bounds of the model.                                                    *)
(***************************************************************************)
\* callables have 0..MaxParams parameters, calls pass 0..MaxParams arguments
MaxParams == 3
\* at most MaxStack `apply` decorators are stacked on one function definition
MaxStack == 2

(***************************************************************************)
(* Python values.                                                          *)
(***************************************************************************)
None == [type |-> "None"]

\* a hypothesis strategy: the filters put on the generated value, in order
Strategy(fs) == [type |-> "strategy", filters |-> fs]

\* the strategy the generator hands to the first hook
BaseStrategy == Strategy(<<>>)

\* HookContext(endpoint)
HookContext == [type |-> "HookContext", endpoint |-> "GET /api/custom_format"]

Returned(v) == [kind |-> "return", val |-> v]

Raised(e) == [kind |-> "raise", val |-> e]

TypeError(msg, name, expected, actual) ==
    [type |-> "TypeError", msg |-> msg, name |-> name,
     expected |-> expected, actual |-> actual]

KeyError(key) == [type |-> "KeyError", key |-> key]

AttributeError == [type |-> "AttributeError"]

Str(s) == [type |-> "str", s |-> s]

EmptyDict == [k \in {} |-> None]

\* d[key] = value
DictSet(d, key, value) ==
    [k \in (DOMAIN d) \cup {key} |-> IF k = key THEN value ELSE d[k]]

\* d.get(key)
DictGet(d, key) == IF key \in DOMAIN d THEN d[key] ELSE None

(***************************************************************************)
(* Callables.                                                              *)
(***************************************************************************)
\* a function: its `__name__` and the names of its parameters, in order
Callable(name, params) == [type |-> "function", name |-> name, params |-> params]

\* every hook specification is declared with the parameters (strategy, context)
SpecParams == 2

SpecNames ==
    {"before_generate_path_parameters", "before_generate_headers",
     "before_generate_cookies", "before_generate_query",
     "before_generate_body", "before_generate_form_data"}

\* the hook specifications, as declared
SpecFunctions == {Callable(n, [i \in 1..SpecParams |-> IF i = 1 THEN "strategy" ELSE "context"]) : n \in SpecNames}

\* the `__name__`s of the functions that are registered as hooks
FuncNames == {"before_generate_query", "extra", "hook"}

\* the parameter names each of these functions is written with; a function
\* written with more parameters than listed takes further ones named "arg"
ParamNames(name) ==
    CASE name = "before_generate_query" -> <<"context", "strategy">>
      [] name = "extra" -> <<"context", "st">>
      [] OTHER -> <<"strategy", "context">>

\* the function called `name` written with k parameters
Function(name, k) ==
    Callable(name, [i \in 1..k |-> IF i <= Len(ParamNames(name))
                                   THEN ParamNames(name)[i] ELSE "arg"])

Callables == {Function(n, k) : n \in FuncNames, k \in 0..MaxParams}

\* inspect.signature(f).parameters
Parameters(f) == f.params

\* len(inspect.signature(f).parameters)
NumParams(f) == Len(Parameters(f))

\* the positional arguments of a call with n arguments: the strategy is last
Args(n) == [i \in 1..n |-> IF i = n THEN BaseStrategy ELSE HookContext]

\* strategy.filter(predicate)
Filter(strategy, predicate) ==
    IF strategy.type = "strategy"
    THEN Returned(Strategy(Append(strategy.filters, predicate)))
    ELSE Raised(AttributeError)

\* What the body of a function does with the arguments it is given: the
\* hooks of the tests filter the strategy, which is their last argument.
Body(f, args) ==
    LET strategy == IF args = <<>> THEN None ELSE args[Len(args)]
    IN  CASE f.name = "before_generate_query" -> Filter(strategy, "isdigit")
          [] f.name = "extra" -> Filter(strategy, "even")
          [] OTHER -> Returned(None)

\* f(*args): Python refuses a call whose argument count is not the
\* function's parameter count, otherwise the body runs
Call(f, args) ==
    IF Len(args) # NumParams(f)
    THEN Raised(TypeError("positional arguments", f.name, NumParams(f), Len(args)))
    ELSE Body(f, args)

(***************************************************************************)
(* HookDispatcher.                                                         *)
(***************************************************************************)
\* the dispatchers: the global one, the one of the schema, and the ones
\* attached to test functions (named after the function)
Artifacts == {"test_a", "test_b"}

Dispatchers == {"GLOBAL", "schema"} \cup Artifacts

\* _validate_hook that accepts any name when the parameter count is that of
\* the declared specifications
validate_hook_count_only(sp, name, hook) ==
    IF name \notin DOMAIN sp
    THEN IF NumParams(hook) = SpecParams
         THEN None
         ELSE TypeError("There is no hook with name", name, 0, 0)
    ELSE IF NumParams(hook) # Len(sp[name])
         THEN TypeError("takes arguments but is defined", name, Len(sp[name]), NumParams(hook))
         ELSE None

\* _validate_hook that refuses only a callable with too few parameters
validate_hook_at_least(sp, name, hook) ==
    IF name \notin DOMAIN sp
    THEN TypeError("There is no hook with name", name, 0, 0)
    ELSE IF NumParams(hook) < Len(sp[name])
         THEN TypeError("takes arguments but is defined", name, Len(sp[name]), NumParams(hook))
         ELSE None

\* _validate_hook that compares the parameters with the specification's
\* by name
validate_hook_same_names(sp, name, hook) ==
    IF name \notin DOMAIN sp
    THEN TypeError("There is no hook with name", name, 0, 0)
    ELSE IF Parameters(hook) # sp[name]
         THEN TypeError("takes arguments but is defined", name, Len(sp[name]), NumParams(hook))
         ELSE None

\* _validate_hook that looks the name up and does not count parameters
validate_hook_name_only(sp, name, hook) ==
    IF name \notin DOMAIN sp
    THEN TypeError("There is no hook with name", name, 0, 0)
    ELSE None

\* _validate_hook: the exception raised, or None
validate_hook(sp, name, hook) ==
    IF name \notin DOMAIN sp
    THEN TypeError("There is no hook with name", name, 0, 0)
    ELSE IF NumParams(hook) # Len(sp[name])
         THEN TypeError("takes arguments but is defined", name, Len(sp[name]), NumParams(hook))
         ELSE None

\* register_hook_with_name that keeps the hook already registered
register_hook_with_name_setdefault(hs, sp, name, hook, skip_validation) ==
    LET err == IF skip_validation THEN None ELSE validate_hook(sp, name, hook)
    IN  IF err # None
        THEN [hooks |-> hs, out |-> Raised(err)]
        ELSE [hooks |-> IF name \in DOMAIN hs THEN hs ELSE DictSet(hs, name, hook),
              out |-> Returned(hook)]

\* register_hook_with_name that stores the hook before it validates it
register_hook_with_name_store_first(hs, sp, name, hook, skip_validation) ==
    LET err == IF skip_validation THEN None ELSE validate_hook(sp, name, hook)
    IN  IF err # None
        THEN [hooks |-> DictSet(hs, name, hook), out |-> Raised(err)]
        ELSE [hooks |-> DictSet(hs, name, hook), out |-> Returned(hook)]

\* register_hook_with_name on the dictionary hs: the dictionary afterwards
\* and the outcome of the call
register_hook_with_name(hs, sp, name, hook, skip_validation) ==
    LET err == IF skip_validation THEN None ELSE validate_hook(sp, name, hook)
    IN  IF err # None
        THEN [hooks |-> hs, out |-> Raised(err)]
        ELSE [hooks |-> DictSet(hs, name, hook), out |-> Returned(hook)]

\* dispatch that subscripts the dictionary without looking first
dispatch_subscript(hs, name, args) ==
    IF name \notin DOMAIN hs
    THEN Raised(KeyError(name))
    ELSE Call(hs[name], args)

\* dispatch that answers None when the hook raises
dispatch_swallow(hs, name, args) ==
    IF name \notin DOMAIN hs
    THEN Returned(None)
    ELSE IF Call(hs[name], args).kind = "raise"
         THEN Returned(None)
         ELSE Call(hs[name], args)

\* dispatch that calls the hook and forgets to return its result
dispatch_no_return(hs, name, args) ==
    IF name \notin DOMAIN hs
    THEN Returned(None)
    ELSE IF Call(hs[name], args).kind = "raise"
         THEN Call(hs[name], args)
         ELSE Returned(None)

\* dispatch that reports a failing hook as an error of its own
dispatch_translate(hs, name, args) ==
    IF name \notin DOMAIN hs
    THEN Returned(None)
    ELSE IF Call(hs[name], args).kind = "raise"
         THEN Raised(TypeError("hook failed", name, 0, 0))
         ELSE Call(hs[name], args)

\* dispatch on the dictionary hs
dispatch(hs, name, args) ==
    IF name \notin DOMAIN hs
    THEN Returned(None)
    ELSE Call(hs[name], args)

\* get_hook on the dictionary hs
get_hook(hs, name) == DictGet(hs, name)

\* unregister_all that leaves the dictionary alone
unregister_all_keep(hs, sp) == [hooks |-> hs, specs |-> sp]

\* unregister_all that empties the specifications as well
unregister_all_and_specs(hs, sp) == [hooks |-> EmptyDict, specs |-> EmptyDict]

\* unregister_all on a dispatcher whose `_hooks` is hs and whose class has
\* the specifications sp: both afterwards
unregister_all(hs, sp) == [hooks |-> EmptyDict, specs |-> sp]

\* the decorator returned by register("name")
Decorator(name) == [type |-> "decorator", name |-> name]

\* HookDispatcher.register(hook): a string gives a decorator and stores
\* nothing, a callable is registered under its own name
HookDispatcher_register(hs, sp, hook) ==
    IF hook.type = "str"
    THEN [hooks |-> hs, out |-> Returned(Decorator(hook.s))]
    ELSE register_hook_with_name(hs, sp, hook.name, hook, FALSE)

\* the decorator that registers func under func's own name
register_decorator_own_name(hs, sp, dec, func) ==
    register_hook_with_name(hs, sp, func.name, func, FALSE)

\* the decorator returned by register("name"), applied to func
register_decorator(hs, sp, dec, func) ==
    register_hook_with_name(hs, sp, dec.name, func, FALSE)

\* apply's decorator that always attaches a new HookDispatcher
apply_decorator_fresh(hs, att, sp, self, name, hook, func) ==
    LET r == register_hook_with_name(EmptyDict, sp, name, hook, FALSE)
    IN  [hooks |-> [hs EXCEPT ![func] = r.hooks],
         attached |-> att \cup {func},
         out |-> IF r.out.kind = "raise" THEN r.out ELSE Returned(func)]

\* apply's decorator that registers on the dispatcher apply was called on
\* as well
apply_decorator_on_self(hs, att, sp, self, name, hook, func) ==
    LET mine == IF func \in att THEN hs[func] ELSE EmptyDict
        r == register_hook_with_name(mine, sp, name, hook, FALSE)
        s == register_hook_with_name(hs[self], sp, name, hook, FALSE)
    IN  [hooks |-> [hs EXCEPT ![func] = r.hooks, ![self] = s.hooks],
         attached |-> att \cup {func},
         out |-> IF r.out.kind = "raise" THEN r.out ELSE Returned(func)]

\* the decorator returned by self.apply(name, hook), applied to the
\* function func: the dictionaries of all dispatchers and the set of
\* functions that have a `_schemathesis_hooks` attribute afterwards
apply_decorator(hs, att, sp, self, name, hook, func) ==
    LET mine == IF func \in att THEN hs[func] ELSE EmptyDict
        r == register_hook_with_name(mine, sp, name, hook, FALSE)
    IN  [hooks |-> [hs EXCEPT ![func] = r.hooks],
         attached |-> att \cup {func},
         out |-> IF r.out.kind = "raise" THEN r.out ELSE Returned(func)]

\* a stack of decorators applied from the top down
RECURSIVE apply_stack_top_down(_, _, _, _, _, _)
apply_stack_top_down(hs, att, sp, self, stack, func) ==
    IF stack = <<>>
    THEN [hooks |-> hs, attached |-> att, out |-> Returned(func)]
    ELSE LET r == apply_decorator(hs, att, sp, self, stack[1].name, stack[1].hook, func)
         IN  IF r.out.kind = "raise"
             THEN r
             ELSE apply_stack_top_down(r.hooks, r.attached, sp, self, Tail(stack), func)

\* the effect of a function definition under a stack of apply decorators,
\* written top to bottom in `stack`: Python applies the decorator nearest to
\* the `def` first and the top one last, and stops at the first exception
RECURSIVE apply_stack(_, _, _, _, _, _)
apply_stack(hs, att, sp, self, stack, func) ==
    IF stack = <<>>
    THEN [hooks |-> hs, attached |-> att, out |-> Returned(func)]
    ELSE LET inner == stack[Len(stack)]
             r == apply_decorator(hs, att, sp, self, inner.name, inner.hook, func)
         IN  IF r.out.kind = "raise"
             THEN r
             ELSE apply_stack(r.hooks, r.attached, sp, self,
                              SubSeq(stack, 1, Len(stack) - 1), func)

\* register_spec on the catalogue sp
register_spec(sp, spec) == DictSet(sp, spec.name, Parameters(spec))

\* the catalogue after the module-level @HookDispatcher.register_spec
\* declarations of the functions in fs
RECURSIVE RegisterSpecs(_, _)
RegisterSpecs(sp, fs) ==
    IF fs = {}
    THEN sp
    ELSE LET f == CHOOSE g \in fs : TRUE
         IN  RegisterSpecs(register_spec(sp, f), fs \ {f})

GLOBAL_HOOK_DISPATCHER == "GLOBAL"

\* HookLocation.__members__
HookLocation ==
    {"path_parameters", "headers", "cookies", "query", "body", "form_data"}

\* f"before_generate_{place}"
BeforeGenerate(place) ==
    CASE place = "path_parameters" -> "before_generate_path_parameters"
      [] place = "headers" -> "before_generate_headers"
      [] place = "cookies" -> "before_generate_cookies"
      [] place = "query" -> "before_generate_query"
      [] place = "body" -> "before_generate_body"
      [] place = "form_data" -> "before_generate_form_data"
      [] OTHER -> "before_generate_"

\* warn_deprecated_hook: the number of warnings it emits
warn_deprecated_hook(hook) ==
    IF \A i \in 1..NumParams(hook) : Parameters(hook)[i] # "context" THEN 1 ELSE 0

\* the legacy register that validates the hook like any other registration
register_validating(hs, sp, args) ==
    IF Len(args) = 1
    THEN LET r == HookDispatcher_register(hs, sp, args[1])
         IN  [hooks |-> r.hooks, out |-> r.out, warnings |-> 0]
    ELSE IF Len(args) = 2
    THEN LET place == args[1].s
             hook == args[2]
             w == 1 + warn_deprecated_hook(hook)
         IN  IF place \notin HookLocation
             THEN [hooks |-> hs, out |-> Raised(KeyError(place)), warnings |-> w]
             ELSE LET r == register_hook_with_name(hs, sp, BeforeGenerate(place), hook, FALSE)
                  IN  [hooks |-> r.hooks, out |-> r.out, warnings |-> w]
    ELSE [hooks |-> hs, warnings |-> 0,
          out |-> Raised(TypeError("Invalid number of arguments", "-", 0, Len(args)))]

\* the legacy register that does not look the place up
register_any_place(hs, sp, args) ==
    IF Len(args) = 1
    THEN LET r == HookDispatcher_register(hs, sp, args[1])
         IN  [hooks |-> r.hooks, out |-> r.out, warnings |-> 0]
    ELSE IF Len(args) = 2
    THEN LET place == args[1].s
             hook == args[2]
             w == 1 + warn_deprecated_hook(hook)
             r == register_hook_with_name(hs, sp, BeforeGenerate(place), hook, TRUE)
         IN  [hooks |-> r.hooks, out |-> r.out, warnings |-> w]
    ELSE [hooks |-> hs, warnings |-> 0,
          out |-> Raised(TypeError("Invalid number of arguments", "-", 0, Len(args)))]

\* the legacy register that takes everything after the first argument as
\* the two-argument form
register_two_or_more(hs, sp, args) ==
    IF Len(args) = 1
    THEN LET r == HookDispatcher_register(hs, sp, args[1])
         IN  [hooks |-> r.hooks, out |-> r.out, warnings |-> 0]
    ELSE IF Len(args) >= 2
    THEN LET place == args[1].s
             hook == args[2]
             w == 1 + warn_deprecated_hook(hook)
         IN  IF place \notin HookLocation
             THEN [hooks |-> hs, out |-> Raised(KeyError(place)), warnings |-> w]
             ELSE LET r == register_hook_with_name(hs, sp, BeforeGenerate(place), hook, TRUE)
                  IN  [hooks |-> r.hooks, out |-> r.out, warnings |-> w]
    ELSE [hooks |-> hs, warnings |-> 0,
          out |-> Raised(TypeError("Invalid number of arguments", "-", 0, Len(args)))]

\* schemathesis.hooks.register(*args): the global dictionary afterwards, the
\* outcome and the number of warnings emitted
register(hs, sp, args) ==
    IF Len(args) = 1
    THEN LET r == HookDispatcher_register(hs, sp, args[1])
         IN  [hooks |-> r.hooks, out |-> r.out, warnings |-> 0]
    ELSE IF Len(args) = 2
    THEN LET place == args[1].s
             hook == args[2]
             w == 1 + warn_deprecated_hook(hook)
         IN  IF place \notin HookLocation
             THEN [hooks |-> hs, out |-> Raised(KeyError(place)), warnings |-> w]
             ELSE LET r == register_hook_with_name(hs, sp, BeforeGenerate(place), hook, TRUE)
                  IN  [hooks |-> r.hooks, out |-> r.out, warnings |-> w]
    ELSE [hooks |-> hs, warnings |-> 0,
          out |-> Raised(TypeError("Invalid number of arguments", "-", 0, Len(args)))]

\* the dispatchers consulted when an extension point fires for a test
\* function, narrowest scope first
Layers(func, att) ==
    (IF func \in att THEN <<func>> ELSE <<>>) \o <<"schema", GLOBAL_HOOK_DISPATCHER>>

\* the value threaded through the layers: a layer that answers with the
\* "no value" sentinel leaves it as it is, an exception ends the firing
RECURSIVE thread(_, _, _, _)
thread(hs, layers, name, value) ==
    IF layers = <<>>
    THEN Returned(value)
    ELSE LET r == dispatch(hs[layers[1]], name, <<HookContext, value>>)
         IN  IF r.kind = "raise"
             THEN r
             ELSE thread(hs, Tail(layers), name, IF r.val = None THEN value ELSE r.val)

(***************************************************************************)
(* State and operations.                                                   *)
(*   hooks[d]   the `_hooks` dictionary of dispatcher d                    *)
(*   attached   the test functions that have a `_schemathesis_hooks`       *)
(*   specs      HookDispatcher._specs, shared by all instances             *)
(*   last       the last call: the operation, the dispatcher it was made   *)
(*              on, the name, the callable and the arguments given, the    *)
(*              dictionary of that dispatcher before the call (None when   *)
(*              the dispatcher did not exist), the outcome and the         *)
(*              number of warnings emitted                                 *)
(***************************************************************************)
Last(op, d, name, hook, args, before, out, warnings) ==
    [op |-> op, d |-> d, name |-> name, hook |-> hook, args |-> args,
     before |-> before, out |-> out, warnings |-> warnings]

\* the dispatchers that exist
Existing == {GLOBAL_HOOK_DISPATCHER, "schema"} \cup attached

Init ==
    /\ hooks = [d \in Dispatchers |-> EmptyDict]
    /\ attached = {}
    /\ specs = RegisterSpecs(EmptyDict, SpecFunctions)
    /\ last = Last("import", "-", "-", None, <<>>, None, Returned(None), 0)

\* @d.register def hook
Register_shared(d, hook) ==
    LET r == HookDispatcher_register(hooks[d], specs, hook)
    IN  /\ d \in Existing
        /\ hooks' = [e \in DOMAIN hooks |-> IF e \in Existing THEN r.hooks ELSE hooks[e]]
        /\ last' = Last("register", d, hook.name, hook, <<>>, hooks[d], r.out, 0)
        /\ UNCHANGED <<attached, specs>>

\* d.register(hook)
Register(d, hook) ==
    LET r == HookDispatcher_register(hooks[d], specs, hook)
    IN  /\ d \in Existing
        /\ hooks' = [hooks EXCEPT ![d] = r.hooks]
        /\ last' = Last("register", d, hook.name, hook, <<>>, hooks[d], r.out, 0)
        /\ UNCHANGED <<attached, specs>>

\* @d.register(name) def func
RegisterNamed(d, name, func) ==
    LET dec == HookDispatcher_register(hooks[d], specs, Str(name))
        r == register_decorator(dec.hooks, specs, dec.out.val, func)
    IN  /\ d \in Existing
        /\ hooks' = [hooks EXCEPT ![d] = r.hooks]
        /\ last' = Last("register_named", d, name, func, <<>>, hooks[d], r.out, 0)
        /\ UNCHANGED <<attached, specs>>

\* self.apply(name, hook)(func)
Apply(self, name, hook, func) ==
    LET r == apply_decorator(hooks, attached, specs, self, name, hook, func)
    IN  /\ self \in Existing
        /\ hooks' = r.hooks
        /\ attached' = r.attached
        /\ last' = Last("apply", func, name, hook, <<>>,
                        IF func \in attached THEN hooks[func] ELSE None, r.out, 0)
        /\ UNCHANGED specs

\* @self.apply(n1, h1) ... @self.apply(nk, hk) def func
DefineStacked(self, stack, func) ==
    LET r == apply_stack(hooks, attached, specs, self, stack, func)
    IN  /\ self \in Existing
        /\ Len(stack) > 1
        /\ hooks' = r.hooks
        /\ attached' = r.attached
        /\ last' = Last("apply_stack", func, stack[1].name, stack[1].hook, stack,
                        IF func \in attached THEN hooks[func] ELSE None, r.out, 0)
        /\ UNCHANGED specs

\* d.dispatch(name, *args)
Dispatch(d, name, args) ==
    /\ d \in Existing
    /\ last' = Last("dispatch", d, name, None, args, hooks[d],
                    dispatch(hooks[d], name, args), 0)
    /\ UNCHANGED <<hooks, attached, specs>>

\* d.get_hook(name)
GetHook(d, name) ==
    /\ d \in Existing
    /\ last' = Last("get_hook", d, name, None, <<>>, hooks[d],
                    Returned(get_hook(hooks[d], name)), 0)
    /\ UNCHANGED <<hooks, attached, specs>>

\* d.unregister_all()
UnregisterAll(d) ==
    /\ d \in Existing
    /\ hooks' = [hooks EXCEPT ![d] = unregister_all(hooks[d], specs).hooks]
    /\ specs' = unregister_all(hooks[d], specs).specs
    /\ last' = Last("unregister_all", d, "-", None, <<>>, hooks[d], Returned(None), 0)
    /\ UNCHANGED attached

\* schemathesis.hooks.dispatch(name, *args)
ModuleDispatch(name, args) ==
    /\ last' = Last("hooks.dispatch", GLOBAL_HOOK_DISPATCHER, name, None, args,
                    hooks[GLOBAL_HOOK_DISPATCHER],
                    dispatch(hooks[GLOBAL_HOOK_DISPATCHER], name, args), 0)
    /\ UNCHANGED <<hooks, attached, specs>>

\* schemathesis.hooks.unregister_all()
ModuleUnregisterAll ==
    /\ hooks' = [hooks EXCEPT ![GLOBAL_HOOK_DISPATCHER] =
                                unregister_all(hooks[GLOBAL_HOOK_DISPATCHER], specs).hooks]
    /\ specs' = unregister_all(hooks[GLOBAL_HOOK_DISPATCHER], specs).specs
    /\ last' = Last("hooks.unregister_all", GLOBAL_HOOK_DISPATCHER, "-", None, <<>>,
                    hooks[GLOBAL_HOOK_DISPATCHER], Returned(None), 0)
    /\ UNCHANGED attached

\* schemathesis.hooks.register(*args)
ModuleRegister(args) ==
    LET r == register(hooks[GLOBAL_HOOK_DISPATCHER], specs, args)
    IN  /\ hooks' = [hooks EXCEPT ![GLOBAL_HOOK_DISPATCHER] = r.hooks]
        /\ last' = Last("hooks.register", GLOBAL_HOOK_DISPATCHER, "-", None, args,
                        hooks[GLOBAL_HOOK_DISPATCHER], r.out, r.warnings)
        /\ UNCHANGED <<attached, specs>>

\* one firing of the extension point `name` for the test function func
Fire(func, name) ==
    /\ last' = Last("fire", func, name, None, <<HookContext, BaseStrategy>>, None,
                    thread(hooks, Layers(func, attached), name, BaseStrategy), 0)
    /\ UNCHANGED <<hooks, attached, specs>>

(***************************************************************************)
(* The calls a program makes.                                              *)
(***************************************************************************)
\* the names hooks are registered, looked up and fired under
HookNames == {"before_generate_query", "before_generate_headers", "hook"}

\* the dispatchers a program registers hooks on directly
Registries == {GLOBAL_HOOK_DISPATCHER, "schema"}

\* Registration, lookup and reset on the global and the schema dispatcher.
Next ==
    \/ \E d \in Registries, hook \in Callables : Register(d, hook)
    \/ \E d \in Registries, name \in HookNames, func \in Callables : RegisterNamed(d, name, func)
    \/ \E d \in Registries, name \in HookNames, n \in 0..MaxParams : Dispatch(d, name, Args(n))
    \/ \E d \in Registries, name \in HookNames : GetHook(d, name)
    \/ \E d \in Registries : UnregisterAll(d)
    \/ \E name \in HookNames, n \in 0..MaxParams : ModuleDispatch(name, Args(n))
    \/ ModuleUnregisterAll

Spec == Init /\ [][Next]_vars

\* the functions given to apply
ApplyHooks == {f \in Callables : f.name \in {"before_generate_query", "extra"}}

\* Hooks applied to test functions, next to hooks registered on the global
\* and the schema dispatcher.
NextApply ==
    \/ \E self \in Registries, name \in HookNames, hook \in ApplyHooks, func \in Artifacts :
            Apply(self, name, hook, func)
    \/ \E d \in Registries : Register(d, Function("before_generate_query", SpecParams))
    \/ \E d \in Dispatchers, name \in HookNames : GetHook(d, name)

SpecApply == Init /\ [][NextApply]_vars

\* the functions with the parameter count of the specifications
ScopeHooks == {f \in Callables : NumParams(f) = SpecParams}

\* the decorators that are stacked on a test function
Decorators ==
    {[name |-> n, hook |-> h] :
        n \in {"before_generate_query", "before_generate_headers"},
        h \in {Function("before_generate_query", SpecParams),
               Function("extra", SpecParams),
               Function("extra", SpecParams + 1)}}

Stacks == UNION {[1..k -> Decorators] : k \in 2..MaxStack}

\* Test functions defined under a stack of apply decorators.
NextStack ==
    \/ \E stack \in Stacks : DefineStacked("schema", stack, "test_a")
    \/ \E hook \in ScopeHooks : Apply("schema", "before_generate_query", hook, "test_b")
    \/ \E d \in Artifacts, name \in HookNames : GetHook(d, name)

SpecStack == Init /\ [][NextStack]_vars

\* Hooks at the test, the schema and the global scope, and firings.
NextScopes ==
    \/ \E d \in Registries, func \in ScopeHooks :
            RegisterNamed(d, "before_generate_query", func)
    \/ \E hook \in ScopeHooks, func \in Artifacts :
            Apply("schema", "before_generate_query", hook, func)
    \/ \E d \in Registries : UnregisterAll(d)
    \/ \E func \in Artifacts, name \in HookNames : Fire(func, name)

SpecScopes == Init /\ [][NextScopes]_vars

\* the locations the legacy register is called with
Places == {"query", "headers", "nowhere"}

\* the argument lists of the top-level register
RegisterArgs ==
    {<<>>}
    \cup {<<f>> : f \in Callables}
    \cup {<<Str(n)>> : n \in HookNames}
    \cup {<<Str(p), f>> : p \in Places, f \in Callables}
    \cup {<<Str(p), f, f>> : p \in Places, f \in ScopeHooks}

\* The module-level functions: the legacy register, dispatch and reset
\* of the global dispatcher.
NextLegacy ==
    \/ \E args \in RegisterArgs : ModuleRegister(args)
    \/ \E name \in HookNames, n \in 0..MaxParams : ModuleDispatch(name, Args(n))
    \/ \E name \in HookNames : GetHook(GLOBAL_HOOK_DISPATCHER, name)
    \/ ModuleUnregisterAll

SpecLegacy == Init /\ [][NextLegacy]_vars

\* the values a hook is fired with: a context and a strategy, a context
\* and something that is no strategy, and every number of values
DispatchArgs ==
    {<<HookContext, v>> : v \in {BaseStrategy, Strategy(<<"even">>), None}}
    \cup {Args(n) : n \in 0..MaxParams}

\* Hooks of the tests registered by name and fired with good and bad values.
NextDispatch ==
    \/ \E d \in Registries, name \in HookNames, func \in ScopeHooks : RegisterNamed(d, name, func)
    \/ \E d \in Registries, name \in HookNames, args \in DispatchArgs : Dispatch(d, name, args)
    \/ \E name \in HookNames, args \in DispatchArgs : ModuleDispatch(name, args)

SpecDispatch == Init /\ [][NextDispatch]_vars

\* the names and functions of a program that uses every operation
AllNames == {"before_generate_query", "hook"}

AllHooks ==
    {Function("before_generate_query", k) : k \in 1..MaxParams}
    \cup {Function("extra", SpecParams)}

\* Every operation that validates what it registers, on the global, the
\* schema and the attached dispatchers.
NextValidated ==
    \/ \E d \in Dispatchers, hook \in AllHooks : Register(d, hook)
    \/ \E d \in Dispatchers, name \in AllNames, func \in AllHooks : RegisterNamed(d, name, func)
    \/ \E self \in Registries, name \in AllNames, hook \in AllHooks, func \in Artifacts :
            Apply(self, name, hook, func)
    \/ \E d \in Dispatchers, name \in AllNames : Dispatch(d, name, Args(SpecParams))
    \/ \E d \in Dispatchers, name \in AllNames : GetHook(d, name)
    \/ \E d \in Dispatchers : UnregisterAll(d)
    \/ \E name \in AllNames : ModuleDispatch(name, Args(SpecParams))
    \/ ModuleUnregisterAll

SpecValidated == Init /\ [][NextValidated]_vars

\* the argument lists the top-level register is called with next to them
AllRegisterArgs ==
    {<<>>}
    \cup {<<f>> : f \in AllHooks}
    \cup {<<Str(p), f>> : p \in {"query", "nowhere"}, f \in AllHooks}

\* Every operation, the legacy register included.
NextAll ==
    \/ NextValidated
    \/ \E args \in AllRegisterArgs : ModuleRegister(args)

SpecAll == Init /\ [][NextAll]_vars

(***************************************************************************)
(* Properties.                                                             *)
(***************************************************************************)
RegisterOps == {"register", "register_named"}

\* C1: a registration (bare or named form) under a name that has no entry
\* in the spec catalogue raises TypeError "There is no hook with name
\* '<name>'" whatever the parameter count of the callable, and the
\* dispatcher is left as it was, with nothing under that name.
C1_UnknownNameRejected ==
    (last.op \in RegisterOps /\ last.name \notin DOMAIN specs) =>
        /\ last.out = Raised(TypeError("There is no hook with name", last.name, 0, 0))
        /\ hooks[last.d] = last.before
        /\ last.name \notin DOMAIN hooks[last.d]

\* a function with the parameter count of the specifications was refused
\* under the name "hook" in the named form
C1_Witness ==
    /\ last.op = "register_named"
    /\ last.name = "hook"
    /\ NumParams(last.hook) = SpecParams
    /\ last.out.kind = "raise"
    /\ last.out.val.msg = "There is no hook with name"

\* C2: under a declared name with spec arity A, a callable with exactly A
\* parameters is registered (the call returns it and the dispatcher holds
\* it under the name); a callable with any other parameter count is refused
\* with a TypeError that states A and the callable's own count.
C2_ArityChecked ==
    (last.op \in RegisterOps /\ last.name \in DOMAIN specs) =>
        LET A == Len(specs[last.name])
        IN  IF NumParams(last.hook) = A
            THEN /\ last.out = Returned(last.hook)
                 /\ last.name \in DOMAIN hooks[last.d]
                 /\ hooks[last.d][last.name] = last.hook
            ELSE /\ last.out = Raised(TypeError("takes arguments but is defined",
                                                last.name, A, NumParams(last.hook)))
                 /\ hooks[last.d] = last.before

\* before_generate_query(a, b, c) was refused on a dispatcher that holds an
\* accepted hook
C2_Witness ==
    /\ last.op = "register"
    /\ last.name = "before_generate_query"
    /\ NumParams(last.hook) = SpecParams + 1
    /\ last.out.kind = "raise"
    /\ last.out.val.expected = SpecParams
    /\ last.out.val.actual = SpecParams + 1
    /\ "before_generate_query" \in DOMAIN hooks[last.d]

DispatchOps == {"dispatch", "hooks.dispatch"}

\* C3: dispatch under a name the dispatcher has no registration for returns
\* None and raises nothing, whatever the arguments.
C3_DispatchMissingIsNone ==
    (last.op \in DispatchOps /\ last.name \notin DOMAIN hooks[last.d]) =>
        last.out = Returned(None)

\* dispatch with arguments, on a dispatcher that holds a hook under another
\* name only
C3_Witness ==
    /\ last.op = "dispatch"
    /\ last.name = "before_generate_query"
    /\ last.name \notin DOMAIN hooks[last.d]
    /\ "before_generate_headers" \in DOMAIN hooks[last.d]
    /\ Len(last.args) = SpecParams
    /\ last.out = Returned(None)

\* C4 as stated: whenever a hook is registered for the name, the result of
\* dispatch differs from the value returned when none is registered.
C4_SentinelDistinct ==
    (last.op \in DispatchOps /\ last.name \in DOMAIN hooks[last.d]) =>
        last.out # Returned(None)

\* the functions whose body returns nothing
ReturnsNone(f) == f.name \notin {"before_generate_query", "extra"}

\* C4 amended: the value dispatch returns when no hook is registered is
\* None; the result of dispatch with a registered hook differs from it
\* unless the hook itself returns None, and then it is None as well.
C4_SentinelIsNone ==
    /\ (last.op \in DispatchOps /\ last.name \notin DOMAIN hooks[last.d]) =>
            last.out = Returned(None)
    /\ (last.op \in DispatchOps /\ last.name \in DOMAIN hooks[last.d]) =>
            (last.out = Returned(None)) =
                (/\ ReturnsNone(hooks[last.d][last.name])
                 /\ Len(last.args) = NumParams(hooks[last.d][last.name]))

\* a registered hook ran and dispatch answered None
C4_Witness ==
    /\ last.op = "dispatch"
    /\ last.name \in DOMAIN hooks[last.d]
    /\ Len(last.args) = SpecParams
    /\ last.out = Returned(None)

\* C5: a successful registration puts the callable under the name in place
\* of whatever was there and leaves the other names alone, so get_hook
\* returns the callable of the most recent successful registration and
\* the callable registered before is neither retrievable nor dispatched.
C5_LastWriteWins ==
    (last.op \in RegisterOps /\ last.out.kind = "return") =>
        /\ hooks[last.d] = DictSet(last.before, last.name, last.hook)
        /\ get_hook(hooks[last.d], last.name) = last.hook
        /\ \A n \in DOMAIN hooks[last.d], k \in 0..MaxParams :
                dispatch(hooks[last.d], n, Args(k)) =
                    Call(IF n = last.name THEN last.hook ELSE last.before[n], Args(k))

\* a second callable was registered under a name that held another one
C5_Witness ==
    /\ last.op \in RegisterOps
    /\ last.out.kind = "return"
    /\ last.name \in DOMAIN last.before
    /\ last.before[last.name] # last.hook
    /\ get_hook(hooks[last.d], last.name) = last.hook

ResetOps == {"unregister_all", "hooks.unregister_all"}

\* the step registers something under name n on dispatcher d
Registers(d, n) ==
    /\ last'.op \in RegisterOps \cup {"apply"}
    /\ last'.d = d
    /\ last'.out.kind = "return"

\* C6: after unregister_all the dispatcher has no registrations: for every
\* name it held, get_hook returns None and dispatch returns None; and a
\* name that is absent stays absent until a registration is made on that
\* dispatcher.
C6_ResetClears ==
    [][/\ last'.op \in ResetOps =>
            /\ hooks'[last'.d] = EmptyDict
            /\ \A n \in DOMAIN last'.before :
                    /\ get_hook(hooks'[last'.d], n) = None
                    /\ \A k \in 0..MaxParams :
                            dispatch(hooks'[last'.d], n, Args(k)) = Returned(None)
       /\ \A d \in Dispatchers, n \in HookNames :
            (n \notin DOMAIN hooks[d] /\ n \in DOMAIN hooks'[d]) =>
                (Registers(d, n) /\ last'.name = n)
      ]_vars

\* the module-level unregister_all emptied a global dispatcher that held
\* hooks
C6_Witness ==
    /\ last.op = "hooks.unregister_all"
    /\ last.d = GLOBAL_HOOK_DISPATCHER
    /\ DOMAIN last.before = {"before_generate_query", "before_generate_headers"}
    /\ hooks[GLOBAL_HOOK_DISPATCHER] = EmptyDict

\* C7: when a function is defined under a stack of apply decorators, the
\* hook left under a name is the one of the top-most decorator for that
\* name, the decorator applied last, whichever way two hooks are stacked.
C7_TopDecoratorWins ==
    (last.op = "apply_stack" /\ last.out.kind = "return") =>
        \A i \in 1..Len(last.args) :
            (\A j \in 1..(i - 1) : last.args[j].name # last.args[i].name) =>
                /\ last.args[i].name \in DOMAIN hooks[last.d]
                /\ hooks[last.d][last.args[i].name] = last.args[i].hook

\* two different hooks were stacked for before_generate_query
C7_Witness ==
    /\ last.op = "apply_stack"
    /\ last.out.kind = "return"
    /\ last.args[1].name = "before_generate_query"
    /\ last.args[2].name = "before_generate_query"
    /\ last.args[1].hook = Function("extra", SpecParams)
    /\ last.args[2].hook = Function("before_generate_query", SpecParams)
    /\ get_hook(hooks[last.d], "before_generate_query") = Function("extra", SpecParams)

\* C8: apply registers the callable on the dispatcher attached to the
\* function it decorates and nowhere else: the dispatcher apply was called
\* on, the global dispatcher and the dispatchers of the other functions
\* keep their registrations, no other function gets a dispatcher, and a
\* function that apply was never used on has no test-scoped hook.
C8_ApplyIsLocal ==
    [][/\ last'.op = "apply" =>
            /\ \A d \in Dispatchers \ {last'.d} : hooks'[d] = hooks[d]
            /\ attached' \ attached \subseteq {last'.d}
            /\ last'.out.kind = "return" =>
                    get_hook(hooks'[last'.d], last'.name) = last'.hook
       /\ \A func \in Artifacts \ attached' :
            /\ hooks'[func] = EmptyDict
            /\ Layers(func, attached') = <<"schema", GLOBAL_HOOK_DISPATCHER>>
      ]_vars

\* apply put a hook on test_a while the schema and the global dispatcher
\* hold another hook and test_b has no dispatcher
C8_Witness ==
    /\ last.op = "apply"
    /\ last.d = "test_a"
    /\ last.out.kind = "return"
    /\ last.name = "before_generate_query"
    /\ last.hook = Function("extra", SpecParams)
    /\ get_hook(hooks["test_a"], "before_generate_query") = Function("extra", SpecParams)
    /\ get_hook(hooks["schema"], "before_generate_query") =
            Function("before_generate_query", SpecParams)
    /\ get_hook(hooks[GLOBAL_HOOK_DISPATCHER], "before_generate_query") =
            Function("before_generate_query", SpecParams)
    /\ "test_b" \notin attached

\* C9: after apply the function has a dispatcher; the first apply starts
\* from an empty one, a later apply from the one already attached, so the
\* hooks applied under different names accumulate; a successful apply
\* returns the function it was given.
C9_ApplyReusesDispatcher ==
    last.op = "apply" =>
        LET mine == IF last.before = None THEN EmptyDict ELSE last.before
        IN  /\ last.d \in attached
            /\ IF last.out.kind = "return"
               THEN /\ last.out = Returned(last.d)
                    /\ hooks[last.d] = DictSet(mine, last.name, last.hook)
               ELSE hooks[last.d] = mine

\* a second apply, under another name, on a function that had a dispatcher
C9_Witness ==
    /\ last.op = "apply"
    /\ last.out.kind = "return"
    /\ last.name = "before_generate_headers"
    /\ last.before # None
    /\ DOMAIN last.before = {"before_generate_query"}
    /\ DOMAIN hooks[last.d] = {"before_generate_query", "before_generate_headers"}

\* the filter a hook puts on the strategy, if it puts one
Transformation(hs, name) ==
    IF name \notin DOMAIN hs \/ ReturnsNone(hs[name])
    THEN <<>>
    ELSE IF hs[name].name = "before_generate_query" THEN <<"isdigit">> ELSE <<"even">>

LegacyCall == last.op = "hooks.register" /\ Len(last.args) = 2

\* the hook has no parameter called "context"
NoContext(f) == "context" \notin {Parameters(f)[i] : i \in 1..NumParams(f)}

\* C11 as stated: register(place, hook) with a recognized place and a hook
\* with fewer parameters than the specification succeeds, stores the hook
\* under before_generate_<place> and emits exactly one warning.
C11_OneWarning ==
    (/\ LegacyCall
     /\ last.args[1].s \in HookLocation
     /\ NumParams(last.args[2]) < SpecParams) =>
        /\ last.out = Returned(last.args[2])
        /\ get_hook(hooks[GLOBAL_HOOK_DISPATCHER], BeforeGenerate(last.args[1].s)) = last.args[2]
        /\ last.warnings = 1

\* C11 amended: register(place, hook) with a recognized place succeeds
\* whatever the parameter count of the hook and stores it on the global
\* dispatcher under before_generate_<place>; the call emits one warning
\* for the two-argument form and a second one when the hook has no
\* parameter called "context".
C11_LegacyRegisters ==
    (LegacyCall /\ last.args[1].s \in HookLocation) =>
        /\ last.out = Returned(last.args[2])
        /\ hooks[GLOBAL_HOOK_DISPATCHER] =
                DictSet(last.before, BeforeGenerate(last.args[1].s), last.args[2])
        /\ last.warnings = IF NoContext(last.args[2]) THEN 2 ELSE 1

\* a hook (strategy) was registered for "query" with two warnings
C11_Witness ==
    /\ LegacyCall
    /\ last.args[1].s = "query"
    /\ Parameters(last.args[2]) = <<"strategy">>
    /\ get_hook(hooks[GLOBAL_HOOK_DISPATCHER], "before_generate_query") = last.args[2]
    /\ last.warnings = 2

\* C12 as stated: register(place, hook) with an unrecognized place raises
\* KeyError(place), emits no warning and leaves the global dispatcher as
\* it was.
C12_NoWarning ==
    (LegacyCall /\ last.args[1].s \notin HookLocation) =>
        /\ last.out = Raised(KeyError(last.args[1].s))
        /\ last.warnings = 0
        /\ hooks[GLOBAL_HOOK_DISPATCHER] = last.before

\* C12 amended: register(place, hook) with an unrecognized place raises
\* KeyError(place) and leaves the global dispatcher as it was; the
\* warnings of the two-argument form (one, and a second one for a hook
\* without "context") are emitted before the place is looked up.
C12_UnknownPlace ==
    (LegacyCall /\ last.args[1].s \notin HookLocation) =>
        /\ last.out = Raised(KeyError(last.args[1].s))
        /\ last.warnings = IF NoContext(last.args[2]) THEN 2 ELSE 1
        /\ hooks[GLOBAL_HOOK_DISPATCHER] = last.before

\* register("nowhere", hook) failed on a global dispatcher that holds a
\* hook, after a warning
C12_Witness ==
    /\ LegacyCall
    /\ last.args[1].s = "nowhere"
    /\ last.out = Raised(KeyError("nowhere"))
    /\ last.warnings = 1
    /\ last.before # EmptyDict
    /\ hooks[GLOBAL_HOOK_DISPATCHER] = last.before

\* C13: register() and register with more than two arguments raise
\* TypeError "Invalid number of arguments", emit no warning and leave the
\* global dispatcher as it was.
C13_InvalidUsage ==
    (last.op = "hooks.register" /\ Len(last.args) \notin {1, 2}) =>
        /\ last.out = Raised(TypeError("Invalid number of arguments", "-", 0, Len(last.args)))
        /\ last.warnings = 0
        /\ hooks[GLOBAL_HOOK_DISPATCHER] = last.before

\* register("query", f, f) was refused on a global dispatcher that holds
\* a hook
C13_Witness ==
    /\ last.op = "hooks.register"
    /\ Len(last.args) = 3
    /\ last.args[1].s = "query"
    /\ last.out.kind = "raise"
    /\ last.before # EmptyDict
    /\ hooks[GLOBAL_HOOK_DISPATCHER] = last.before

\* C14: a register that succeeds returns the callable it was given and
\* get_hook then returns that callable, under the callable's own name for
\* register(hook) and under the given string for register("name")(hook),
\* which leaves the entry of the callable's own name alone.
C14_RegisterReturnsHook ==
    /\ (last.op = "register" /\ last.out.kind = "return") =>
            /\ last.out = Returned(last.hook)
            /\ get_hook(hooks[last.d], last.hook.name) = last.hook
    /\ (last.op = "register_named" /\ last.out.kind = "return") =>
            /\ last.out = Returned(last.hook)
            /\ get_hook(hooks[last.d], last.name) = last.hook
            /\ last.hook.name # last.name =>
                    get_hook(hooks[last.d], last.hook.name) = get_hook(last.before, last.hook.name)

\* register("before_generate_headers") was given a function called
\* before_generate_query, which get_hook returns for the headers name only
C14_Witness ==
    /\ last.op = "register_named"
    /\ last.name = "before_generate_headers"
    /\ last.hook = Function("before_generate_query", SpecParams)
    /\ last.out = Returned(last.hook)
    /\ get_hook(hooks[last.d], "before_generate_headers") = last.hook
    /\ get_hook(hooks[last.d], "before_generate_query") = None

\* C15: dispatch of a name that has a hook gives what the call of exactly
\* that hook with exactly the given values gives, its return value or the
\* exception it raises, and leaves the registrations as they were.
C15_DispatchCallsHook ==
    (last.op \in DispatchOps /\ last.name \in DOMAIN last.before) =>
        /\ last.out = Call(last.before[last.name], last.args)
        /\ last.out.kind = "raise" => last.out.val.type \in {"AttributeError", "TypeError"}
        /\ (last.out.kind = "raise" /\ Len(last.args) = NumParams(last.before[last.name])) =>
                last.out = Raised(AttributeError)
        /\ hooks[last.d] = last.before

\* the hook of the tests was fired with None for the strategy: its
\* AttributeError came out of dispatch and the hook is still registered
C15_Witness ==
    /\ last.op = "dispatch"
    /\ last.name = "before_generate_query"
    /\ last.args = <<HookContext, None>>
    /\ get_hook(last.before, "before_generate_query") = Function("before_generate_query", SpecParams)
    /\ last.out = Raised(AttributeError)
    /\ hooks[last.d] = last.before

\* C16: registration under a declared name looks at the number of
\* parameters only: a callable with as many parameters as the
\* specification is accepted whatever they are called and in whatever
\* order, and any callable with the same number of parameters as the one
\* given would have had the same outcome.
C16_CountOnly ==
    (last.op \in RegisterOps /\ last.name \in DOMAIN specs) =>
        /\ NumParams(last.hook) = Len(specs[last.name]) =>
                /\ last.out = Returned(last.hook)
                /\ get_hook(hooks[last.d], last.name) = last.hook
        /\ \A g \in Callables :
                NumParams(g) = NumParams(last.hook) =>
                    register_hook_with_name(last.before, specs, last.name, g, FALSE).out.kind
                        = last.out.kind

\* a function written (context, st) was accepted for a specification
\* declared (strategy, context)
C16_Witness ==
    /\ last.op = "register_named"
    /\ last.name = "before_generate_query"
    /\ specs[last.name] = <<"strategy", "context">>
    /\ Parameters(last.hook) = <<"context", "st">>
    /\ last.out = Returned(last.hook)
    /\ get_hook(hooks[last.d], last.name) = last.hook

\* C17: no operation changes the hook specifications: every step of
\* register, apply, dispatch, get_hook, unregister_all and the legacy
\* register, on any dispatcher, leaves the catalogue as it was declared.
C17_SpecsNeverChange == [][specs' = specs]_vars

\* a dispatcher that held a hook was reset and the six specifications are
\* still declared
C17_Witness ==
    /\ last.op \in ResetOps
    /\ last.before # EmptyDict
    /\ hooks[last.d] = EmptyDict
    /\ DOMAIN specs = SpecNames
    /\ \A n \in SpecNames : specs[n] = <<"strategy", "context">>

\* the registrations of the dispatcher the last operation was called on,
\* as they were before it
Before == IF last.before = None THEN EmptyDict ELSE last.before

\* C18: a register or apply that raises leaves the registrations of its
\* dispatcher as they were: every hook registered before it is still
\* what get_hook returns and what dispatch calls.
C18_FailedRegisterKeeps ==
    (last.op \in RegisterOps \cup {"apply"} /\ last.out.kind = "raise") =>
        /\ hooks[last.d] = Before
        /\ \A n \in DOMAIN Before :
                /\ get_hook(hooks[last.d], n) = Before[n]
                /\ dispatch(hooks[last.d], n, Args(SpecParams)) = Call(Before[n], Args(SpecParams))

\* a function with three parameters was refused for a name that has a
\* hook, and the hook is still there
C18_Witness ==
    /\ last.op = "register_named"
    /\ last.name = "before_generate_query"
    /\ NumParams(last.hook) = 3
    /\ last.out.kind = "raise"
    /\ get_hook(last.before, "before_generate_query") = Function("extra", SpecParams)
    /\ get_hook(hooks[last.d], "before_generate_query") = Function("extra", SpecParams)

\* C19: an operation called on one dispatcher changes the registrations
\* of no other dispatcher, whether global, of the schema or attached to a
\* test function.
C19_PerInstance ==
    [][\A d \in Dispatchers : d # last'.d => hooks'[d] = hooks[d]]_vars

\* the schema dispatcher was reset while the global dispatcher and the
\* one attached to test_a keep their hooks
C19_Witness ==
    /\ last.op = "unregister_all"
    /\ last.d = "schema"
    /\ last.before # EmptyDict
    /\ hooks["schema"] = EmptyDict
    /\ hooks[GLOBAL_HOOK_DISPATCHER] # EmptyDict
    /\ "test_a" \in attached
    /\ hooks["test_a"] # EmptyDict

\* C20: when only validating operations are used, every name registered
\* on any dispatcher is a declared specification and its callable has as
\* many parameters as the specification.
C20_RegisteredAreValid ==
    \A d \in Dispatchers : \A n \in DOMAIN hooks[d] :
        /\ n \in DOMAIN specs
        /\ NumParams(hooks[d][n]) = Len(specs[n])

\* the global, the schema and an attached dispatcher each hold a hook
C20_Witness ==
    /\ get_hook(hooks[GLOBAL_HOOK_DISPATCHER], "before_generate_query") # None
    /\ get_hook(hooks["schema"], "before_generate_query") # None
    /\ "test_a" \in attached
    /\ get_hook(hooks["test_a"], "before_generate_query") # None

====
